---- MODULE Spec2Model ----
(***************************************************************************)
(* Session and token lifecycle of the spotify_agent backend (src/auth.py), *)
(* its HTTP handlers (src/main.py) and its agent tools                     *)
(* (src/spotify_tools.py).                                                 *)
(*                                                                         *)
(* The Firestore collection 'sessions' is a function from the ids of the   *)
(* documents that exist to their field dictionaries.  Time is counted in   *)
(* ticks of 1/SubSec second, so that the truncation of a datetime to the   *)
(* whole seconds of a JWT "exp" claim is visible.                          *)
(***************************************************************************)
EXTENDS Integers, FiniteSets, Sequences, TLC

VARIABLES
    sessions,   \* db.collection('sessions'): document id -> fields
    now,        \* datetime.now(timezone.utc), in ticks
    issued,     \* the credential each client holds: session id -> JWT
    revoked,    \* ids revoked and not issued again since
    attached,   \* arguments of the last successful store_spotify_tokens
    cb,         \* the OAuth callbacks: how far each has come
    conversations,  \* db.collection('conversations'): document id -> fields
    writers,    \* the running store_conversation_message calls
    recorded,   \* the entries of the calls that have returned, in order
    last        \* the last operation, its arguments and its outcome

conv == <<conversations, writers, recorded>>

vars == <<sessions, now, issued, revoked, attached, cb, conv, last>>

(***************************************************************************)
(* Bounds and program constants                                            *)
(***************************************************************************)
SubSec == 2        \* clock ticks per second
MaxEpochs == 1     \* whole TTL periods the clock may advance
MaxDrift == 2      \* ticks the clock may advance within a period
MaxStores == 3     \* calls of store_conversation_message
TTL == 3600        \* timedelta(hours=1), in seconds

Hour == TTL * SubSec

SessionIds == {"s1", "s2"}
AccessTokens == {"", "at1"}
RefreshTokens == {"rt1"}
Scopes == {"user-read-private"}
ExpiresIn == {1}

NoFields == [k \in {} |-> 0]

(***************************************************************************)
(* Firestore document operations                                           *)
(***************************************************************************)
doc_exists(db, id) == id \in DOMAIN db

\* Mutant: the write replaces the collection by the one document.
doc_set_alone(db, id, data) == [s \in {id} |-> data]

doc_set(db, id, data) ==
    [s \in DOMAIN db \cup {id} |-> IF s = id THEN data ELSE db[s]]

doc_delete(db, id) == [s \in DOMAIN db \ {id} |-> db[s]]

\* Mutant: a field the document already has keeps its value.
doc_update_keep(db, id, data) ==
    [db EXCEPT ![id] =
        [k \in DOMAIN db[id] \cup DOMAIN data |->
            IF k \in DOMAIN db[id] THEN db[id][k] ELSE data[k]]]

doc_update(db, id, data) ==
    [db EXCEPT ![id] =
        [k \in DOMAIN db[id] \cup DOMAIN data |->
            IF k \in DOMAIN data THEN data[k] ELSE db[id][k]]]

(***************************************************************************)
(* PyJWT as auth.py uses it                                                *)
(***************************************************************************)
\* jwt.encode turns the datetime "exp" into whole seconds since the epoch.
jwt_encode(payload) ==
    [session_id |-> payload.session_id, exp |-> payload.exp \div SubSec,
     sig |-> TRUE]

\* jwt.decode raises ExpiredSignatureError when exp <= now.
jwt_expired(cred, t) == cred.exp * SubSec <= t

\* Mutant: the signature is not verified.
jwt_decode_unverified(cred, t) ==
    IF ~jwt_expired(cred, t)
    THEN [ok |-> TRUE,
          payload |-> [session_id |-> cred.session_id, exp |-> cred.exp]]
    ELSE [ok |-> FALSE, payload |-> NoFields]

jwt_decode(cred, t) ==
    IF cred.sig /\ ~jwt_expired(cred, t)
    THEN [ok |-> TRUE,
          payload |-> [session_id |-> cred.session_id, exp |-> cred.exp]]
    ELSE [ok |-> FALSE, payload |-> NoFields]

(***************************************************************************)
(* auth.py                                                                 *)
(***************************************************************************)
Unauthorized(detail, db) ==
    [exc |-> "HTTPException", status_code |-> 401, detail |-> detail,
     ret |-> NoFields, db |-> db]

Returned(value, db) ==
    [exc |-> "", status_code |-> 200, detail |-> "", ret |-> value, db |-> db]

\* Mutant: the stored expiry is never checked.
session_expired_never(session_data, t) == FALSE

session_expired(session_data, t) ==
    "expires_at" \in DOMAIN session_data /\ session_data.expires_at < t

\* Mutant: the expired session is left in the store.
cleanup_skipped(db, session_id) == db

\* session_ref.delete() on the expired-session path.
cleanup_expired(db, session_id) == doc_delete(db, session_id)

verify_jwt_token(cred, db, t) ==
    LET dec == jwt_decode(cred, t) IN
    IF ~dec.ok THEN Unauthorized("Invalid token", db)
    ELSE LET session_id == dec.payload.session_id IN
         IF session_id = ""
         THEN Unauthorized("Invalid token: missing session_id", db)
         ELSE IF ~doc_exists(db, session_id)
         THEN Unauthorized("Session expired or invalid", db)
         ELSE IF session_expired(db[session_id], t)
         THEN Unauthorized("Session expired", cleanup_expired(db, session_id))
         ELSE Returned(dec.payload, db)

\* Mutant: the TTL is not added.
new_session_data_no_ttl(t) ==
    [created_at |-> t, expires_at |-> t, active |-> TRUE]

new_session_data(t) ==
    [created_at |-> t, expires_at |-> t + Hour, active |-> TRUE]

generate_jwt_and_store_session(session_id, db, t) ==
    LET data == new_session_data(t) IN
    Returned(jwt_encode([session_id |-> session_id, exp |-> data.expires_at]),
             doc_set(db, session_id, data))

\* Mutant: deleting a session that is not there is an error.
revoke_session_strict(session_id, db) ==
    IF doc_exists(db, session_id)
    THEN Returned(NoFields, doc_delete(db, session_id))
    ELSE [exc |-> "NotFound", status_code |-> 0, detail |-> "",
          ret |-> NoFields, db |-> db]

\* Mutant: the session is marked inactive instead of deleted.
revoke_session_deactivate(session_id, db) ==
    Returned(NoFields,
             IF doc_exists(db, session_id)
             THEN doc_update(db, session_id, [active |-> FALSE])
             ELSE db)

revoke_session(session_id, db) == Returned(NoFields, doc_delete(db, session_id))

\* Mutant: the token expiry is written under the session's own key.
spotify_data_clobber(access_token, refresh_token, expires_in, scope, t) ==
    [spotify_access_token |-> access_token,
     spotify_refresh_token |-> refresh_token,
     expires_at |-> t + expires_in * SubSec,
     spotify_token_expires_at |-> t + expires_in * SubSec,
     spotify_scope |-> scope,
     spotify_linked_at |-> t]

spotify_data(access_token, refresh_token, expires_in, scope, t) ==
    [spotify_access_token |-> access_token,
     spotify_refresh_token |-> refresh_token,
     spotify_token_expires_at |-> t + expires_in * SubSec,
     spotify_scope |-> scope,
     spotify_linked_at |-> t]

\* Mutant: the write creates the document when it is missing, as
\* set(..., merge=True) does.
store_spotify_tokens_upsert(session_id, access_token, refresh_token, expires_in, scope, db, t) ==
    IF ~doc_exists(db, session_id)
    THEN Returned(NoFields,
                  doc_set(db, session_id,
                          spotify_data(access_token, refresh_token,
                                       expires_in, scope, t)))
    ELSE Returned(NoFields,
                  doc_update(db, session_id,
                             spotify_data(access_token, refresh_token,
                                          expires_in, scope, t)))

\* DocumentReference.update raises NotFound when the document does not exist.
store_spotify_tokens(session_id, access_token, refresh_token, expires_in, scope, db, t) ==
    IF ~doc_exists(db, session_id)
    THEN [exc |-> "NotFound", status_code |-> 0, detail |-> "", ret |-> NoFields,
          db |-> db]
    ELSE Returned(NoFields,
                  doc_update(db, session_id,
                             spotify_data(access_token, refresh_token,
                                          expires_in, scope, t)))

None == NoFields

dict_get(d, k) == IF k \in DOMAIN d THEN d[k] ELSE None

\* "not session_data.get('spotify_access_token')": missing, None or empty.
\* Mutant: only the presence of the field is checked.
has_access_token_key(session_data) ==
    "spotify_access_token" \in DOMAIN session_data

has_access_token(session_data) ==
    "spotify_access_token" \in DOMAIN session_data
    /\ session_data.spotify_access_token # ""

\* Mutant: the token counts as expired at the instant of its expiry.
token_expired_inclusive(session_data, t) ==
    "spotify_token_expires_at" \in DOMAIN session_data
    /\ session_data.spotify_token_expires_at <= t

token_expired(session_data, t) ==
    "spotify_token_expires_at" \in DOMAIN session_data
    /\ session_data.spotify_token_expires_at < t

tokens_dict(session_data) ==
    [access_token |-> dict_get(session_data, "spotify_access_token"),
     refresh_token |-> dict_get(session_data, "spotify_refresh_token"),
     expires_at |-> dict_get(session_data, "spotify_token_expires_at"),
     scope |-> dict_get(session_data, "spotify_scope")]

\* Mutant: a stale bundle is cleaned up as the verifier cleans up a stale
\* session, by deleting the document.
get_spotify_tokens_evict(session_id, db, t) ==
    IF ~doc_exists(db, session_id) THEN Returned(None, db)
    ELSE LET session_data == db[session_id] IN
         IF ~has_access_token(session_data) THEN Returned(None, db)
         ELSE IF token_expired(session_data, t)
              THEN Returned(None, doc_delete(db, session_id))
         ELSE Returned(tokens_dict(session_data), db)

get_spotify_tokens(session_id, db, t) ==
    IF ~doc_exists(db, session_id) THEN Returned(None, db)
    ELSE LET session_data == db[session_id] IN
         IF ~has_access_token(session_data) THEN Returned(None, db)
         ELSE IF token_expired(session_data, t) THEN Returned(None, db)
         ELSE Returned(tokens_dict(session_data), db)

(***************************************************************************)
(* auth.py: the conversation store                                         *)
(***************************************************************************)
ConversationIds == {"k1", "k2"}
ChatMessages == {"m1", "m2"}
ChatResponses == {"r1"}

\* f"{session_id}_{conversation_id}"
conversation_key(session_id, conversation_id) ==
    <<session_id, "_", conversation_id>>

message_data(message, response, t) ==
    [timestamp |-> t, message |-> message, response |-> response]

\* firestore.ArrayUnion: each element that the array does not hold yet is
\* added at its end.
RECURSIVE array_union(_, _)
array_union(arr, elems) ==
    IF elems = <<>> THEN arr
    ELSE array_union(IF \E i \in 1..Len(arr) : arr[i] = elems[1]
                     THEN arr ELSE Append(arr, elems[1]),
                     Tail(elems))

\* store_conversation_message up to conversation_ref.get(): the entry it
\* will store and whether it found the document.
store_conversation_get(session_id, conversation_id, message, response, cdb, t) ==
    [session_id |-> session_id, conversation_id |-> conversation_id,
     message_data |-> message_data(message, response, t),
     exists |-> doc_exists(cdb, conversation_key(session_id, conversation_id))]

\* store_conversation_message from the test of conversation_doc.exists on:
\* update with ArrayUnion, or set of a new document.
store_conversation_put(got, cdb, t) ==
    LET key == conversation_key(got.session_id, got.conversation_id) IN
    IF got.exists
    THEN IF ~doc_exists(cdb, key)
         THEN [exc |-> "NotFound", status_code |-> 0, detail |-> "",
               ret |-> NoFields, db |-> cdb]
         ELSE Returned(NoFields,
                       doc_update(cdb, key,
                           [messages |-> array_union(
                                             dict_get(cdb[key], "messages"),
                                             <<got.message_data>>),
                            updated_at |-> t]))
    ELSE Returned(NoFields,
                  doc_set(cdb, key,
                          [session_id |-> got.session_id,
                           conversation_id |-> got.conversation_id,
                           created_at |-> t, updated_at |-> t,
                           messages |-> <<got.message_data>>]))

(***************************************************************************)
(* main.py                                                                 *)
(***************************************************************************)
\* A query-string value is a sequence of pieces: a colon, or a run of
\* characters without a colon.  The empty sequence is the empty string,
\* which the handlers treat like a missing parameter.
Colon == ":"

Codes == {"", "code1"}
Errors == {"", "access_denied"}
States ==
    {<<>>, <<"s1">>, <<"s1", Colon, "n1">>, <<"s2", Colon, "n1">>,
     <<"s1", Colon, "n1", Colon, "n2">>}

HTTPException(status_code, detail, db) ==
    [exc |-> "HTTPException", status_code |-> status_code, detail |-> detail,
     ret |-> NoFields, db |-> db]

\* An exception no handler catches: the framework answers 500.
Unhandled(exc, db) ==
    [exc |-> exc, status_code |-> 500, detail |-> <<"Internal Server Error">>,
     ret |-> NoFields, db |-> db]

first_colon(s) ==
    IF \E i \in 1..Len(s) : s[i] = Colon
    THEN CHOOSE i \in 1..Len(s) :
            s[i] = Colon /\ \A j \in 1..(i - 1) : s[j] # Colon
    ELSE 0

\* Mutant: a string without a colon splits into itself and an empty rest, as
\* str.partition does.
str_split_once_partition(s) ==
    LET i == first_colon(s) IN
    IF i = 0 THEN <<s, <<>>>>
    ELSE <<SubSeq(s, 1, i - 1), SubSeq(s, i + 1, Len(s))>>

\* s.split(":", 1)
str_split_once(s) ==
    LET i == first_colon(s) IN
    IF i = 0 THEN <<s>>
    ELSE <<SubSeq(s, 1, i - 1), SubSeq(s, i + 1, Len(s))>>

\* The text of a string without a colon.
str_text(s) == IF s = <<>> THEN "" ELSE s[1]

\* Mutant: the code is looked at before the error parameter.
spotify_callback_request_code_first(code, error, state, db) ==
    IF code = ""
    THEN [send |-> FALSE, session_id |-> "",
          res |-> HTTPException(400, <<"No authorization code received">>, db)]
    ELSE IF error # ""
    THEN [send |-> FALSE, session_id |-> "",
          res |-> HTTPException(400, <<"Spotify OAuth error: ", error>>, db)]
    ELSE IF state = <<>>
    THEN [send |-> FALSE, session_id |-> "",
          res |-> HTTPException(400, <<"Missing state parameter">>, db)]
    ELSE LET parts == str_split_once(state) IN
         IF Len(parts) # 2
         THEN [send |-> FALSE, session_id |-> "",
               res |-> HTTPException(400, <<"Invalid state parameter format">>,
                                     db)]
         ELSE [send |-> TRUE, session_id |-> str_text(parts[1]),
               res |-> Returned(NoFields, db)]

\* spotify_callback up to the token request: the checks of the query
\* parameters, in the order of the code.  "send" says whether the request to
\* the token endpoint goes out.
spotify_callback_request(code, error, state, db) ==
    IF error # ""
    THEN [send |-> FALSE, session_id |-> "",
          res |-> HTTPException(400, <<"Spotify OAuth error: ", error>>, db)]
    ELSE IF code = ""
    THEN [send |-> FALSE, session_id |-> "",
          res |-> HTTPException(400, <<"No authorization code received">>, db)]
    ELSE IF state = <<>>
    THEN [send |-> FALSE, session_id |-> "",
          res |-> HTTPException(400, <<"Missing state parameter">>, db)]
    ELSE LET parts == str_split_once(state) IN
         IF Len(parts) # 2
         THEN [send |-> FALSE, session_id |-> "",
               res |-> HTTPException(400, <<"Invalid state parameter format">>,
                                     db)]
         ELSE [send |-> TRUE, session_id |-> str_text(parts[1]),
               res |-> Returned(NoFields, db)]

\* What requests.post can come back with: a success with the token document,
\* a refusal with an error body, or no response at all.
TokenResponses ==
    {[access_token |-> a, refresh_token |-> r, expires_in |-> e,
      token_type |-> "Bearer", scope |-> sc] :
        a \in AccessTokens, r \in RefreshTokens, e \in ExpiresIn, sc \in Scopes}

ProviderReplies ==
    {[raised |-> FALSE, status_code |-> 200, text |-> "", json |-> j] :
        j \in TokenResponses}
    \cup {[raised |-> FALSE, status_code |-> 400, text |-> "invalid_grant",
           json |-> NoFields],
          [raised |-> TRUE, status_code |-> 0, text |-> "", json |-> NoFields]}

exchange_succeeded(response) == ~response.raised /\ response.status_code = 200

\* Mutant: the access token and the refresh token change places in the call
\* of store_spotify_tokens.
spotify_callback_response_swapped(session_id, response, db, t) ==
    IF response.raised THEN Unhandled("ConnectionError", db)
    ELSE IF response.status_code # 200
    THEN HTTPException(400, <<"Failed to exchange code for token: ",
                              response.text>>, db)
    ELSE LET token_response == response.json
             stored == store_spotify_tokens(
                           session_id,
                           dict_get(token_response, "refresh_token"),
                           dict_get(token_response, "access_token"),
                           dict_get(token_response, "expires_in"),
                           dict_get(token_response, "scope"), db, t)
         IN IF stored.exc # ""
            THEN HTTPException(500, <<"Failed to store Spotify tokens">>, db)
            ELSE Returned([status |-> "success"], stored.db)

\* spotify_callback from the provider's reply on.
spotify_callback_response(session_id, response, db, t) ==
    IF response.raised THEN Unhandled("ConnectionError", db)
    ELSE IF response.status_code # 200
    THEN HTTPException(400, <<"Failed to exchange code for token: ",
                              response.text>>, db)
    ELSE LET token_response == response.json
             stored == store_spotify_tokens(
                           session_id,
                           dict_get(token_response, "access_token"),
                           dict_get(token_response, "refresh_token"),
                           dict_get(token_response, "expires_in"),
                           dict_get(token_response, "scope"), db, t)
         IN IF stored.exc # ""
            THEN HTTPException(500, <<"Failed to store Spotify tokens">>, db)
            ELSE Returned([status |-> "success"], stored.db)

Messages == {"hi"}

\* What building and running the agent can come to: an exception before the
\* agent is invoked, an exception from the invocation, or an answer.
AgentOutcomes == {"build_error", "run_error", "output"}

\* The try block of chat_endpoint.
run_agent(access_token, message, agent) ==
    IF agent = "build_error"
    THEN [exc |-> "Exception", invoked |-> FALSE, output |-> ""]
    ELSE IF agent = "run_error"
    THEN [exc |-> "Exception", invoked |-> TRUE, output |-> ""]
    ELSE [exc |-> "", invoked |-> TRUE, output |-> "answer"]

\* Mutant: the exception of the agent leaves the handler.
chat_error_response_raise(message, exc, db) == Unhandled(exc, db)

\* The except clause of chat_endpoint.
chat_error_response(message, exc, db) ==
    Returned([message |-> "Sorry, I encountered an error",
              received_message |-> message,
              spotify_authenticated |-> TRUE,
              error |-> exc], db)

\* Mutant: the handler looks for the access token in the session document
\* itself and does not check its expiry.
chat_endpoint_unexpiring(cred, message, agent, db, t) ==
    LET current_user == verify_jwt_token(cred, db, t) IN
    IF current_user.exc # ""
    THEN [res |-> current_user, verified |-> FALSE, spotify_tokens |-> None,
          invoked |-> FALSE]
    ELSE LET session_id == current_user.ret.session_id
             read == Returned(
                         IF has_access_token(current_user.db[session_id])
                         THEN tokens_dict(current_user.db[session_id])
                         ELSE None, current_user.db)
             spotify_tokens == read.ret
         IN IF spotify_tokens = None
            THEN [res |-> Returned(
                     [message |-> "Complete Spotify authentication first",
                      received_message |-> message,
                      spotify_authenticated |-> FALSE], read.db),
                  verified |-> TRUE, spotify_tokens |-> spotify_tokens,
                  invoked |-> FALSE]
            ELSE LET result == run_agent(spotify_tokens.access_token, message,
                                         agent)
                 IN IF result.exc # ""
                    THEN [res |-> chat_error_response(message, result.exc,
                                                      read.db),
                          verified |-> TRUE,
                          spotify_tokens |-> spotify_tokens,
                          invoked |-> result.invoked]
                    ELSE [res |-> Returned(
                             [message |-> result.output,
                              received_message |-> message,
                              spotify_authenticated |-> TRUE], read.db),
                          verified |-> TRUE,
                          spotify_tokens |-> spotify_tokens,
                          invoked |-> result.invoked]

\* chat_endpoint with its dependency verify_jwt_token.  Beside the response,
\* the result tells what get_spotify_tokens returned and whether the agent
\* was invoked.
chat_endpoint(cred, message, agent, db, t) ==
    LET current_user == verify_jwt_token(cred, db, t) IN
    IF current_user.exc # ""
    THEN [res |-> current_user, verified |-> FALSE, spotify_tokens |-> None,
          invoked |-> FALSE]
    ELSE LET session_id == current_user.ret.session_id
             read == get_spotify_tokens(session_id, current_user.db, t)
             spotify_tokens == read.ret
         IN IF spotify_tokens = None
            THEN [res |-> Returned(
                     [message |-> "Complete Spotify authentication first",
                      received_message |-> message,
                      spotify_authenticated |-> FALSE], read.db),
                  verified |-> TRUE, spotify_tokens |-> spotify_tokens,
                  invoked |-> FALSE]
            ELSE LET result == run_agent(spotify_tokens.access_token, message,
                                         agent)
                 IN IF result.exc # ""
                    THEN [res |-> chat_error_response(message, result.exc,
                                                      read.db),
                          verified |-> TRUE,
                          spotify_tokens |-> spotify_tokens,
                          invoked |-> result.invoked]
                    ELSE [res |-> Returned(
                             [message |-> result.output,
                              received_message |-> message,
                              spotify_authenticated |-> TRUE], read.db),
                          verified |-> TRUE,
                          spotify_tokens |-> spotify_tokens,
                          invoked |-> result.invoked]

Nonces == {"n1"}

spotify_login(session_id, nonce, db, t) ==
    LET token == generate_jwt_and_store_session(session_id, db, t)
        state == <<session_id, Colon, nonce>>
    IN Returned([auth_url |-> [state |-> state], access_token |-> token.ret,
                 token_type |-> "bearer", expires_in |-> 3600], token.db)

(***************************************************************************)
(* spotify_tools.py                                                        *)
(***************************************************************************)
DefaultLimit == 20   \* get_recently_played: limit = 20
LimitCap == 50       \* get_recently_played: min(numbers[0], 50)

ToolNames ==
    {"get_user_profile", "get_user_playlists", "get_saved_tracks",
     "search_spotify", "get_top_tracks", "get_recently_played",
     "play_next_song", "add_to_queue", "get_user_current_track"}

\* A tool's input is a sequence of characters.
Inputs ==
    {<<>>,
     <<"S", "h", "o", "r", "t", " ", "t", "e", "r", "m">>,
     <<"l", "o", "n", "g">>,
     <<"l", "a", "s", "t", " ", "1", "0", " ", "s", "o", "n", "g", "s">>,
     <<"6", "0">>,
     <<"5", " ", "6", "0">>,
     <<"1", "0", "s", "o", "n", "g", "s">>,
     <<"t", "o", "p", " ", "2", "²">>}

DecimalDigits == <<"0", "1", "2", "3", "4", "5", "6", "7", "8", "9">>

is_decimal(ch) == \E d \in 1..Len(DecimalDigits) : DecimalDigits[d] = ch

\* str.isdigit is also true of digits that int() does not read, such as a
\* superscript two.
char_isdigit(ch) == is_decimal(ch) \/ ch = "²"

str_isdigit(w) == w # <<>> /\ \A i \in 1..Len(w) : char_isdigit(w[i])

char_lower(ch) ==
    CASE ch = "S" -> "s"
      [] ch = "L" -> "l"
      [] OTHER -> ch

str_lower(s) == [i \in 1..Len(s) |-> char_lower(s[i])]

\* sub in s
str_contains(s, sub) ==
    \E i \in 1..(Len(s) - Len(sub) + 1) :
        SubSeq(s, i, i + Len(sub) - 1) = sub

\* s.split(): the runs of characters between blanks.
RECURSIVE str_split(_)
str_split(s) ==
    IF s = <<>> THEN <<>>
    ELSE IF s[1] = " " THEN str_split(Tail(s))
    ELSE LET end == IF \E i \in 1..Len(s) : s[i] = " "
                    THEN (CHOOSE i \in 1..Len(s) :
                             s[i] = " " /\ \A j \in 1..(i - 1) : s[j] # " ") - 1
                    ELSE Len(s)
         IN <<SubSeq(s, 1, end)>> \o str_split(SubSeq(s, end + 1, Len(s)))

digit_value(ch) == (CHOOSE d \in 1..Len(DecimalDigits) : DecimalDigits[d] = ch) - 1

RECURSIVE decimal_value(_)
decimal_value(w) ==
    IF w = <<>> THEN 0
    ELSE decimal_value(SubSeq(w, 1, Len(w) - 1)) * 10 + digit_value(w[Len(w)])

\* int(w) for a word of which str.isdigit is true.
int_parse(w) ==
    IF \A i \in 1..Len(w) : is_decimal(w[i])
    THEN [exc |-> "", value |-> decimal_value(w)]
    ELSE [exc |-> "ValueError", value |-> 0]

\* Mutant: the first argument is taken as it is.
min_first(a, b) == a

min(a, b) == IF a <= b THEN a ELSE b

\* get_recently_played: the limit it asks the provider for.
recently_played_limit(input_text) ==
    IF input_text # <<>> /\ \E i \in 1..Len(input_text) : char_isdigit(input_text[i])
    THEN LET words == str_split(input_text)
             digits == SelectSeq(words, str_isdigit)
         IN IF \E i \in 1..Len(digits) : int_parse(digits[i]).exc # ""
            THEN [exc |-> "ValueError", limit |-> 0]
            ELSE IF digits # <<>>
            THEN [exc |-> "", limit |-> min(int_parse(digits[1]).value, LimitCap)]
            ELSE [exc |-> "", limit |-> DefaultLimit]
    ELSE [exc |-> "", limit |-> DefaultLimit]

\* get_top_tracks: the time range it asks the provider for.
top_tracks_time_range(input_text) ==
    IF input_text # <<>>
       /\ str_contains(str_lower(input_text), <<"s", "h", "o", "r", "t">>)
    THEN "short_term"
    ELSE IF input_text # <<>>
            /\ str_contains(str_lower(input_text), <<"l", "o", "n", "g">>)
    THEN "long_term"
    ELSE "medium_term"

\* What a call of the Spotify client can come to: an exception, a null
\* document, or a document with a list of items.  An item is given by the
\* parts of it that are missing: none, its name, its track, or the first of
\* its artists.
Items == {{}, {"name"}, {"track"}, {"artists[0]"}}

ProviderOutcomes ==
    {[raised |-> TRUE, null |-> FALSE, items |-> <<>>],
     [raised |-> FALSE, null |-> TRUE, items |-> <<>>],
     [raised |-> FALSE, null |-> FALSE, items |-> <<>>]}
    \cup {[raised |-> FALSE, null |-> FALSE, items |-> <<{}, it>>] :
            it \in Items}

\* The parts of an item a tool reads, in the order it reads them.
item_reads(tool) ==
    CASE tool = "get_user_playlists" -> <<"name", "id", "tracks", "public">>
      [] tool = "get_saved_tracks" ->
            <<"track", "name", "artists[0]", "album", "id">>
      [] tool = "search_spotify" -> <<"name", "artists[0]", "id">>
      [] tool = "get_top_tracks" ->
            <<"name", "artists[0]", "popularity", "id">>
      [] tool = "get_recently_played" ->
            <<"track", "name", "artists[0]", "played_at", "id">>
      [] OTHER -> <<>>

\* The exception of reading a missing part: a key that is not there, a
\* subscript of None, an index into an empty list.
read_error(part) ==
    CASE part = "track" -> "TypeError"
      [] part = "artists[0]" -> "IndexError"
      [] OTHER -> "KeyError"

\* The loop over the items of a response.
read_items(tool, outcome) ==
    LET reads == item_reads(tool)
        bad == {<<i, j>> \in (1..Len(outcome.items)) \X (1..Len(reads)) :
                   reads[j] \in outcome.items[i]}
    IN IF outcome.null THEN [exc |-> "TypeError", ret |-> <<>>]
       ELSE IF bad = {} THEN [exc |-> "", ret |-> <<"json", Len(outcome.items)>>]
       ELSE LET first == CHOOSE p \in bad :
                            \A q \in bad :
                                p[1] < q[1] \/ (p[1] = q[1] /\ p[2] <= q[2])
            IN [exc |-> read_error(reads[first[2]]), ret |-> <<>>]

\* The body of a tool's try block: "call" is the request made to the
\* provider, if any.
tool_try(tool, input_text, outcome) ==
    LET limit == recently_played_limit(input_text)
        call ==
            CASE tool = "get_recently_played" -> [limit |-> limit.limit]
              [] tool = "get_top_tracks" ->
                   [limit |-> 20,
                    time_range |-> top_tracks_time_range(input_text)]
              [] tool \in {"get_user_playlists", "get_saved_tracks"} ->
                   [limit |-> 20]
              [] tool = "search_spotify" -> [q |-> input_text, limit |-> 10]
              [] tool = "add_to_queue" -> [uri |-> input_text]
              [] OTHER -> NoFields
    IN IF tool = "get_recently_played" /\ limit.exc # ""
       THEN [exc |-> limit.exc, ret |-> <<>>, called |-> FALSE,
             call |-> NoFields]
       ELSE IF outcome.raised
       THEN [exc |-> "SpotifyException", ret |-> <<>>, called |-> TRUE,
             call |-> call]
       ELSE IF tool = "get_user_profile"
       THEN IF outcome.null
            THEN [exc |-> "AttributeError", ret |-> <<>>, called |-> TRUE,
                  call |-> call]
            ELSE [exc |-> "", ret |-> <<"json", 1>>, called |-> TRUE,
                  call |-> call]
       ELSE IF tool = "play_next_song"
       THEN [exc |-> "", ret |-> <<"Next song queued">>, called |-> TRUE,
             call |-> call]
       ELSE IF tool = "add_to_queue"
       THEN [exc |-> "", ret |-> <<"Song added to queue">>, called |-> TRUE,
             call |-> call]
       ELSE IF tool = "get_user_current_track"
       THEN [exc |-> "",
             ret |-> IF outcome.null THEN <<"null">> ELSE <<"json", 1>>,
             called |-> TRUE, call |-> call]
       ELSE LET read == read_items(tool, outcome) IN
            [exc |-> read.exc, ret |-> read.ret, called |-> TRUE,
             call |-> call]

error_prefix(tool) ==
    CASE tool = "get_user_profile" -> "Error getting profile: "
      [] tool = "get_user_playlists" -> "Error getting playlists: "
      [] tool = "get_saved_tracks" -> "Error getting saved tracks: "
      [] tool = "search_spotify" -> "Error searching: "
      [] tool = "get_top_tracks" -> "Error getting top tracks: "
      [] tool = "get_recently_played" -> "Error getting recently played: "
      [] tool = "play_next_song" -> "Error playing next song: "
      [] tool = "add_to_queue" -> "Error adding to queue: "
      [] OTHER -> "Error getting current track: "

\* Mutant: only the provider's own exception is caught.
tool_except_provider_only(tool, body) ==
    IF body.exc = "" THEN [exc |-> "", ret |-> body.ret]
    ELSE IF body.exc = "SpotifyException"
    THEN [exc |-> "", ret |-> <<error_prefix(tool), body.exc>>]
    ELSE [exc |-> body.exc, ret |-> <<>>]

\* "except Exception as e: return f'Error ...: {str(e)}'"
tool_except(tool, body) ==
    IF body.exc = "" THEN [exc |-> "", ret |-> body.ret]
    ELSE [exc |-> "", ret |-> <<error_prefix(tool), body.exc>>]

\* One of the nine tools of create_spotify_tools, called by the agent.
spotify_tool(tool, input_text, outcome) ==
    LET body == tool_try(tool, input_text, outcome)
        res == tool_except(tool, body)
    IN [exc |-> res.exc, ret |-> res.ret, call |-> body.call]

(***************************************************************************)
(* State machine                                                           *)
(***************************************************************************)
\* Credentials a client can present that the server never issued: a token
\* with a bad signature for each session id, and a token signed with the
\* server's key whose payload has no session_id.
FarFuture == (MaxEpochs + 2) * TTL

OtherCredentials ==
    {[session_id |-> s, exp |-> FarFuture, sig |-> FALSE] : s \in SessionIds}
    \cup {[session_id |-> "", exp |-> FarFuture, sig |-> TRUE]}

Response(r) ==
    [exc |-> r.exc, status_code |-> r.status_code, detail |-> r.detail,
     ret |-> r.ret]

NoResponse == [exc |-> "", status_code |-> 0, detail |-> "", ret |-> NoFields]

NoPrev == [op |-> "", detail |-> ""]

\* What came immediately before, kept where an operation repeats on the same
\* target: a Verify of the credential just issued or just verified, a Revoke
\* of the id just revoked.
Follows(op, sid, cred) ==
    IF /\ last.sid = sid
       /\ \/ op = "Verify" /\ last.op \in {"Issue", "Verify"} /\ last.cred = cred
          \/ op = "Revoke" /\ last.op = "Revoke"
    THEN [op |-> last.op, detail |-> last.res.detail]
    ELSE NoPrev

Done(op, sid, cred, r) ==
    [op |-> op, sid |-> sid, cred |-> cred, res |-> Response(r),
     prev |-> Follows(op, sid, cred)]

Idle(op, sid) ==
    [op |-> op, sid |-> sid, cred |-> NoFields, res |-> NoResponse,
     prev |-> NoPrev]

Restrict(f, S) == [s \in DOMAIN f \cap S |-> f[s]]

\* The calls of store_conversation_message that may run at the same time.
WriterIds == {"w1", "w2"}

NotWriting == NoFields

\* The callbacks the provider may redirect to the server, and the state of
\* one that has not arrived: "path" lists the steps of the OAuth flow it has
\* taken, "exchanges" counts its requests to the token endpoint, "rivals"
\* are the callbacks that were waiting for the provider when it arrived,
\* "response" is the provider's reply once it has come.
CallbackIds == {"c1", "c2"}

Awaiting ==
    [path |-> <<>>, session_id |-> "", exchanges |-> 0, rivals |-> {},
     response |-> NoFields]

Init ==
    /\ sessions = [s \in {} |-> NoFields]
    /\ now = 0
    /\ issued = [s \in {} |-> NoFields]
    /\ revoked = {}
    /\ attached = [s \in {} |-> NoFields]
    /\ cb = [c \in CallbackIds |-> Awaiting]
    /\ conversations = [k \in {} |-> NoFields]
    /\ writers = [w \in WriterIds |-> NotWriting]
    /\ recorded = <<>>
    /\ last = Idle("Init", "")

Issue(sid) ==
    LET r == generate_jwt_and_store_session(sid, sessions, now) IN
    /\ sessions' = r.db
    /\ issued' = doc_set(issued, sid, r.ret)
    /\ revoked' = revoked \ {sid}
    /\ attached' = Restrict(attached, DOMAIN attached \ {sid})
    /\ last' = Done("Issue", sid, r.ret, r)
    /\ UNCHANGED <<now, cb, conv>>

Verify(cred) ==
    LET r == verify_jwt_token(cred, sessions, now) IN
    /\ sessions' = r.db
    /\ attached' = Restrict(attached, DOMAIN r.db)
    /\ last' = Done("Verify", cred.session_id, cred, r)
    /\ UNCHANGED <<now, issued, revoked, cb, conv>>

Revoke(sid) ==
    LET r == revoke_session(sid, sessions) IN
    /\ sessions' = r.db
    /\ revoked' = revoked \cup {sid}
    /\ attached' = Restrict(attached, DOMAIN r.db)
    /\ last' = Done("Revoke", sid, NoFields, r)
    /\ UNCHANGED <<now, issued, cb, conv>>

Attach(sid, access_token, refresh_token, expires_in, scope) ==
    LET r == store_spotify_tokens(sid, access_token, refresh_token, expires_in,
                                  scope, sessions, now) IN
    /\ sessions' = r.db
    /\ attached' =
         IF r.exc = ""
         THEN [s \in DOMAIN attached \cup {sid} |->
                 IF s = sid
                 THEN [access_token |-> access_token,
                       refresh_token |-> refresh_token,
                       expires_in |-> expires_in, scope |-> scope,
                       at |-> now]
                 ELSE attached[s]]
         ELSE attached
    /\ last' = Done("Attach", sid, NoFields, r)
    /\ UNCHANGED <<now, issued, revoked, cb, conv>>

Read(sid) ==
    LET r == get_spotify_tokens(sid, sessions, now) IN
    /\ sessions' = r.db
    /\ last' = Done("Read", sid, NoFields, r)
    /\ UNCHANGED <<now, issued, revoked, attached, cb, conv>>

\* The clock stands at Epoch(t) * (Hour - 1) + Drift(t).
Epoch(t) == t \div (Hour - 1)

Drift(t) == t - Epoch(t) * (Hour - 1)

\* datetime.now(timezone.utc) read at a later instant.
AdvanceClock(d) ==
    /\ \/ d = 1 /\ Drift(now) < MaxDrift
       \/ d = Hour - 1 /\ Epoch(now) < MaxEpochs
    /\ now' = now + d
    /\ last' = Idle("AdvanceClock", "")
    /\ UNCHANGED <<sessions, issued, revoked, attached, cb, conv>>

\* A write to the store from outside the program that puts a session's
\* expires_at in the past.
ForceExpiry(sid) ==
    /\ doc_exists(sessions, sid)
    /\ now > 0
    /\ sessions' = doc_update(sessions, sid, [expires_at |-> now - 1])
    /\ last' = Idle("ForceExpiry", sid)
    /\ UNCHANGED <<now, issued, revoked, attached, cb, conv>>

Next ==
    \/ \E sid \in SessionIds : Issue(sid)
    \/ \E cred \in {issued[s] : s \in DOMAIN issued} \cup OtherCredentials : Verify(cred)
    \/ \E sid \in SessionIds : Revoke(sid)
    \/ \E sid \in SessionIds, a \in AccessTokens, r \in RefreshTokens,
          e \in ExpiresIn, sc \in Scopes : Attach(sid, a, r, e, sc)
    \/ \E sid \in SessionIds : Read(sid)
    \/ \E d \in {1, Hour - 1} : AdvanceClock(d)

Spec == Init /\ [][Next]_vars

\* The verifier's operations with the store also written from outside.
NextForced ==
    \/ \E sid \in SessionIds : Issue(sid)
    \/ \E cred \in {issued[s] : s \in DOMAIN issued} \cup OtherCredentials :
          Verify(cred)
    \/ \E sid \in SessionIds : Revoke(sid)
    \/ \E d \in {1, Hour - 1} : AdvanceClock(d)
    \/ \E sid \in SessionIds : ForceExpiry(sid)

SpecForced == Init /\ [][NextForced]_vars

\* GET /spotify/login.  The session id is a fresh uuid4.
Login(sid, nonce) ==
    /\ sid \notin DOMAIN issued
    /\ LET r == spotify_login(sid, nonce, sessions, now) IN
       /\ sessions' = r.db
       /\ issued' = doc_set(issued, sid, r.ret.access_token)
       /\ last' = [op |-> "Login", sid |-> sid, cred |-> r.ret.access_token,
                   res |-> Response(r), prev |-> NoPrev]
    /\ revoked' = revoked \ {sid}
    /\ attached' = Restrict(attached, DOMAIN attached \ {sid})
    /\ UNCHANGED <<now, cb, conv>>

\* GET /spotify/callback from the arrival of the redirect to the point where
\* the handler waits for the token endpoint, or to its error response.
CallbackReceive(c, code, error, state) ==
    /\ cb[c].path = <<>>
    /\ LET q == spotify_callback_request(code, error, state, sessions) IN
       /\ sessions' = q.res.db
       /\ cb' = [cb EXCEPT ![c] =
                   [path |-> IF q.send THEN <<"CodeReceived">>
                             ELSE <<"Errored">>,
                    session_id |-> q.session_id,
                    exchanges |-> IF q.send THEN 1 ELSE 0,
                    rivals |-> {d \in CallbackIds :
                                  cb[d].path = <<"CodeReceived">>},
                    response |-> NoFields]]
       /\ last' = [op |-> "CallbackReceive", sid |-> q.session_id,
                   cred |-> NoFields,
                   res |-> IF q.send THEN NoResponse ELSE Response(q.res),
                   prev |-> NoPrev,
                   req |-> [c |-> c, code |-> code, error |-> error,
                            state |-> state]]
    /\ UNCHANGED <<now, issued, revoked, attached, conv>>

\* Mutant: a callback whose exchange was refused is given another reply, as
\* if the handler tried the exchange again.
awaiting_reply_or_retrying(c) ==
    cb[c].path \in {<<"CodeReceived">>, <<"CodeReceived", "Errored">>}

\* The handler of callback c is inside requests.post.
awaiting_reply(c) == cb[c].path = <<"CodeReceived">>

\* GET /spotify/callback from the provider's reply to the response.
CallbackComplete(c, response) ==
    /\ awaiting_reply(c)
    /\ LET sid == cb[c].session_id
           r == spotify_callback_response(sid, response, sessions, now)
           exchanged == IF exchange_succeeded(response)
                        THEN Append(cb[c].path, "TokenExchanged")
                        ELSE cb[c].path
       IN /\ sessions' = r.db
          /\ cb' = [cb EXCEPT
                      ![c].path = Append(exchanged,
                                         IF r.exc = "" THEN "Linked"
                                         ELSE "Errored"),
                      ![c].response = response]
          /\ attached' =
               IF r.exc = ""
               THEN [s \in DOMAIN attached \cup {sid} |->
                       IF s = sid
                       THEN [access_token |-> response.json.access_token,
                             refresh_token |-> response.json.refresh_token,
                             expires_in |-> response.json.expires_in,
                             scope |-> response.json.scope,
                             at |-> now]
                       ELSE attached[s]]
               ELSE attached
          /\ last' = [op |-> "CallbackComplete", sid |-> sid,
                      cred |-> NoFields, res |-> Response(r), prev |-> NoPrev,
                      req |-> [c |-> c, response |-> response]]
    /\ UNCHANGED <<now, issued, revoked, conv>>

\* POST /chat.
Chat(cred, message, agent) ==
    LET r == chat_endpoint(cred, message, agent, sessions, now) IN
    /\ sessions' = r.res.db
    /\ attached' = Restrict(attached, DOMAIN r.res.db)
    /\ last' = [op |-> "Chat", sid |-> cred.session_id, cred |-> cred,
                res |-> Response(r.res), prev |-> NoPrev,
                req |-> [message |-> message, agent |-> agent],
                verified |-> r.verified, spotify_tokens |-> r.spotify_tokens,
                invoked |-> r.invoked]
    /\ UNCHANGED <<now, issued, revoked, cb, conv>>

\* The HTTP interface as one client at a time drives it: a login, the
\* provider's redirect for it, and chat requests.
NextHttp ==
    \/ \E sid \in SessionIds, nonce \in Nonces : Login(sid, nonce)
    \/ \E code \in Codes, error \in Errors, state \in States :
          CallbackReceive("c1", code, error, state)
    \/ \E response \in ProviderReplies : CallbackComplete("c1", response)
    \/ \E cred \in {issued[s] : s \in DOMAIN issued} \cup OtherCredentials,
          message \in Messages, agent \in AgentOutcomes :
          Chat(cred, message, agent)
    \/ \E d \in {1, Hour - 1} : AdvanceClock(d)

SpecHttp == Init /\ [][NextHttp]_vars

\* datetime.now(timezone.utc) read one tick later, within the first period.
Tick ==
    /\ now < MaxDrift
    /\ now' = now + 1
    /\ last' = Idle("Tick", "")
    /\ UNCHANGED <<sessions, issued, revoked, attached, cb, conv>>

\* Two redirects for the same login, handled at the same time, while the
\* session may be revoked.
NextRace ==
    \/ \E nonce \in Nonces : Login("s1", nonce)
    \/ Revoke("s1")
    \/ \E c \in CallbackIds, nonce \in Nonces :
          CallbackReceive(c, "code1", "", <<"s1", Colon, nonce>>)
    \/ \E c \in CallbackIds, response \in ProviderReplies :
          CallbackComplete(c, response)
    \/ Tick

SpecRace == Init /\ [][NextRace]_vars

\* The agent calls a tool.
CallTool(tool, input_text, outcome) ==
    /\ last' = [op |-> "Tool", tool |-> tool, input |-> input_text,
                outcome |-> outcome,
                res |-> spotify_tool(tool, input_text, outcome)]
    /\ UNCHANGED <<sessions, now, issued, revoked, attached, cb, conv>>

NextTools ==
    \E tool \in ToolNames, input_text \in Inputs, outcome \in ProviderOutcomes :
        CallTool(tool, input_text, outcome)

SpecTools == Init /\ [][NextTools]_vars

\* store_conversation_message from its call to the answer of
\* conversation_ref.get().
StoreBegin(w, sid, cid, message, response) ==
    /\ writers[w] = NotWriting
    /\ Len(recorded) + Cardinality({v \in WriterIds : writers[v] # NotWriting})
         < MaxStores
    /\ writers' = [writers EXCEPT ![w] =
                     store_conversation_get(sid, cid, message, response,
                                            conversations, now)]
    /\ last' = Idle("StoreBegin", sid)
    /\ UNCHANGED <<sessions, now, issued, revoked, attached, cb,
                   conversations, recorded>>

\* store_conversation_message from there to its return.
StoreEnd(w) ==
    /\ writers[w] # NotWriting
    /\ LET r == store_conversation_put(writers[w], conversations, now) IN
       /\ conversations' = r.db
       /\ recorded' =
            IF r.exc = ""
            THEN Append(recorded,
                        [key |-> conversation_key(writers[w].session_id,
                                                  writers[w].conversation_id),
                         message_data |-> writers[w].message_data])
            ELSE recorded
    /\ writers' = [writers EXCEPT ![w] = NotWriting]
    /\ last' = Idle("StoreEnd", writers[w].session_id)
    /\ UNCHANGED <<sessions, now, issued, revoked, attached, cb>>

\* The conversation store written by calls that may overlap.
NextConversations ==
    \/ \E w \in WriterIds, cid \in ConversationIds, message \in ChatMessages,
          response \in ChatResponses : StoreBegin(w, "s1", cid, message, response)
    \/ \E w \in WriterIds : StoreEnd(w)
    \/ Tick

SpecConversations == Init /\ [][NextConversations]_vars

\* Every operation on sessions side by side: the functions of auth.py, the
\* handlers of main.py with a callback waiting for the provider while the
\* others run, and the store written from outside so that the verifier's
\* cleanup is reached.
NextIsolation ==
    \/ \E sid \in SessionIds : Issue(sid)
    \/ \E cred \in {issued[s] : s \in DOMAIN issued} : Verify(cred)
    \/ \E sid \in SessionIds : Revoke(sid)
    \/ \E sid \in SessionIds : Attach(sid, "at1", "rt1", 1, "user-read-private")
    \/ \E sid \in SessionIds : Read(sid)
    \/ \E sid \in SessionIds :
          CallbackReceive("c1", "code1", "", <<sid, Colon, "n1">>)
    \/ \E response \in {r \in ProviderReplies :
                           exchange_succeeded(r) /\ r.json.access_token = "at1"} :
          CallbackComplete("c1", response)
    \/ \E cred \in {issued[s] : s \in DOMAIN issued} : Chat(cred, "hi", "output")
    \/ \E sid \in SessionIds : ForceExpiry(sid)
    \/ Tick

SpecIsolation == Init /\ [][NextIsolation]_vars

(***************************************************************************)
(* Vocabulary of the claims                                                *)
(***************************************************************************)
Succeeded == last.res.exc = ""

InvalidCredential == "Invalid token"

SessionNotFound == "Session expired or invalid"

SessionExpired == "Session expired"

\* The credential is one the server signed for a session.
SessionCredential(cred) == cred.sig /\ cred.session_id \in SessionIds

\* C1: Issue(sessionId) followed immediately by Verify of the credential it
\* returned succeeds, and the claims returned carry exactly that session id.
C1_IssueThenVerify ==
    (last.op = "Verify" /\ last.prev.op = "Issue")
        => /\ Succeeded
           /\ last.res.status_code = 200
           /\ last.res.ret.session_id = last.sid
           /\ last.sid \in SessionIds

C1_Witness ==
    /\ last.op = "Verify"
    /\ last.prev.op = "Issue"
    /\ Succeeded
    /\ now > 0

\* C2: Verify accepts a credential only if its signature is valid, it carries
\* a session id and that id resolves, at the moment of the check, to a
\* record whose expires_at is not in the past; otherwise it fails with 401
\* and returns no claims.
C2_AcceptedOnlyIf ==
    last.op = "Verify" =>
        IF Succeeded
        THEN /\ last.cred.sig
             /\ last.cred.session_id # ""
             /\ last.cred.session_id \in DOMAIN sessions
             /\ ~(sessions[last.cred.session_id].expires_at < now)
             /\ last.res.ret.session_id = last.cred.session_id
        ELSE /\ last.res.exc = "HTTPException"
             /\ last.res.status_code = 401
             /\ last.res.ret = NoFields

C2_Witness ==
    /\ last.op = "Verify"
    /\ Succeeded
    /\ sessions[last.sid].created_at < now

\* C3 as stated: after Revoke(sessionId), Verify of that session's credential
\* fails with SessionNotFound, whatever happened to other sessions since.
C3_Original ==
    (last.op = "Verify" /\ SessionCredential(last.cred)
     /\ last.sid \in revoked)
        => last.res.detail = SessionNotFound

\* C3 amended: after Revoke(sessionId), Verify of that session's credential
\* fails with 401: with SessionNotFound while the credential's own exp has
\* not passed, and with InvalidCredential once it has.
C3_VerifyAfterRevoke ==
    (last.op = "Verify" /\ SessionCredential(last.cred)
     /\ last.sid \in revoked)
        => /\ ~Succeeded
           /\ last.res.status_code = 401
           /\ last.res.ret = NoFields
           /\ last.res.detail =
                 IF last.cred.exp * SubSec <= now THEN InvalidCredential
                 ELSE SessionNotFound

C3_Witness ==
    /\ last.op = "Verify"
    /\ SessionCredential(last.cred)
    /\ last.sid \in revoked
    /\ last.res.detail = SessionNotFound
    /\ \E o \in DOMAIN sessions : o # last.sid

\* C4: when the stored expires_at is in the past while the credential is
\* validly signed and unexpired, Verify fails with SessionExpired and deletes
\* the Session record, so that a second Verify of the same credential fails
\* with SessionNotFound.
C4_ExpiredThenNotFound ==
    [][/\ (/\ last'.op = "Verify"
           /\ SessionCredential(last'.cred)
           /\ last'.cred.exp * SubSec > now
           /\ last'.sid \in DOMAIN sessions
           /\ sessions[last'.sid].expires_at < now)
          => /\ last'.res.detail = SessionExpired
             /\ last'.res.status_code = 401
             /\ last'.sid \notin DOMAIN sessions'
       /\ (/\ last'.op = "Verify"
           /\ last'.prev = [op |-> "Verify", detail |-> SessionExpired])
          => /\ last'.res.detail = SessionNotFound
             /\ last'.res.status_code = 401]_vars

C4_Witness ==
    /\ last.op = "Verify"
    /\ last.prev = [op |-> "Verify", detail |-> SessionExpired]
    /\ last.res.detail = SessionNotFound
    /\ last.sid \notin DOMAIN sessions

\* C5: with sessions created only by Issue and time only advancing, the
\* first Verify of a session's credential after the session's expires_at has
\* passed removes the Session record from the store.
C5_LazyDeleteOnVerify ==
    [][(/\ last'.op = "Verify"
        /\ last'.sid \in DOMAIN issued
        /\ last'.cred = issued[last'.sid]
        /\ last'.sid \in DOMAIN sessions
        /\ sessions[last'.sid].expires_at < now)
       => last'.sid \notin DOMAIN sessions']_vars

\* C6: Verify rejects a credential whose own exp has passed even when the
\* stored record is present and unexpired, rejects a credential whose stored
\* expires_at has passed even when the credential's exp has not, and
\* succeeds only when neither has passed.
C6_DoubleExpiry ==
    [][(last'.op = "Verify" /\ SessionCredential(last'.cred)) =>
         LET c == last'.cred
             rejected == /\ last'.res.exc = "HTTPException"
                         /\ last'.res.status_code = 401
                         /\ last'.res.ret = NoFields
         IN /\ c.exp * SubSec <= now => rejected
            /\ (/\ c.session_id \in DOMAIN sessions
                /\ sessions[c.session_id].expires_at < now) => rejected
            /\ last'.res.exc = "" =>
                 /\ c.exp * SubSec > now
                 /\ c.session_id \in DOMAIN sessions
                 /\ ~(sessions[c.session_id].expires_at < now)]_vars

\* The stored expiry alone rejected a credential that is itself unexpired.
C6_Witness ==
    /\ last.op = "Verify"
    /\ SessionCredential(last.cred)
    /\ last.cred.exp * SubSec > now
    /\ last.res.detail = SessionExpired

\* The credential's expiry alone rejected it: the record is there, unexpired.
C6_WitnessCredential ==
    /\ last.op = "Verify"
    /\ SessionCredential(last.cred)
    /\ last.cred.exp * SubSec <= now
    /\ last.res.detail = InvalidCredential
    /\ last.sid \in DOMAIN sessions
    /\ ~(sessions[last.sid].expires_at < now)

\* C7: every Session record has expires_at = created_at + 1 hour and
\* active = TRUE, and no operation other than Issue of that id changes an
\* existing session's created_at or expires_at.
C7_ExpiryNeverExtended ==
    [][\A s \in SessionIds :
         /\ s \in DOMAIN sessions' =>
              /\ sessions'[s].expires_at = sessions'[s].created_at + TTL * SubSec
              /\ sessions'[s].active = TRUE
         /\ (/\ s \in DOMAIN sessions
             /\ s \in DOMAIN sessions'
             /\ ~(last'.op = "Issue" /\ last'.sid = s))
            => /\ sessions'[s].created_at = sessions[s].created_at
               /\ sessions'[s].expires_at = sessions[s].expires_at]_vars

C7_Witness ==
    /\ last.op = "Attach"
    /\ Succeeded
    /\ sessions[last.sid].created_at < now
    /\ sessions[last.sid].expires_at = sessions[last.sid].created_at + TTL * SubSec
    /\ "spotify_token_expires_at" \in DOMAIN sessions[last.sid]

\* C8: Revoke on an absent record raises no error and leaves the store
\* unchanged; Revoke removes the record with whatever is attached to it and
\* touches no other record, and a second Revoke changes nothing more.
C8_RevokeIdempotent ==
    [][last'.op = "Revoke" =>
         /\ last'.res.exc = ""
         /\ last'.sid \notin DOMAIN sessions'
         /\ DOMAIN sessions' = DOMAIN sessions \ {last'.sid}
         /\ \A o \in DOMAIN sessions' : sessions'[o] = sessions[o]
         /\ last'.sid \notin DOMAIN sessions => sessions' = sessions
         /\ revoke_session(last'.sid, sessions').exc = ""
         /\ revoke_session(last'.sid, sessions').db = sessions']_vars

C8_Witness ==
    /\ last.op = "Revoke"
    /\ last.prev.op = "Revoke"
    /\ Succeeded
    /\ last.sid \notin DOMAIN sessions
    /\ sessions # NoFields

\* The expiry of the bundle attached by the last store_spotify_tokens.
AttachedExpiry(sid) == attached[sid].at + attached[sid].expires_in * SubSec

\* C9 as stated: Attach followed by Read while the bundle's expiry has not
\* passed returns exactly the attached bundle (access token, refresh token,
\* scope, expiry, link timestamp); once it has passed, Read returns absent.
C9_Original ==
    (last.op = "Read" /\ last.sid \in DOMAIN attached) =>
        IF AttachedExpiry(last.sid) < now
        THEN last.res.ret = None
        ELSE last.res.ret =
               [access_token |-> attached[last.sid].access_token,
                refresh_token |-> attached[last.sid].refresh_token,
                scope |-> attached[last.sid].scope,
                expires_at |-> AttachedExpiry(last.sid),
                linked_at |-> attached[last.sid].at]

\* C9 amended: Attach of a bundle with a non-empty access token followed by
\* Read while the bundle's expiry has not passed returns exactly the attached
\* access token, refresh token, scope and expiry (attach time + expires_in),
\* without the link timestamp; once the expiry has passed, or when the access
\* token is empty, Read returns absent.
C9_AttachThenRead ==
    (last.op = "Read" /\ last.sid \in DOMAIN attached) =>
        IF AttachedExpiry(last.sid) < now \/ attached[last.sid].access_token = ""
        THEN last.res.ret = None
        ELSE last.res.ret =
               [access_token |-> attached[last.sid].access_token,
                refresh_token |-> attached[last.sid].refresh_token,
                scope |-> attached[last.sid].scope,
                expires_at |-> AttachedExpiry(last.sid)]

C9_Witness ==
    /\ last.op = "Read"
    /\ last.sid \in DOMAIN attached
    /\ attached[last.sid].at < now
    /\ AttachedExpiry(last.sid) = now
    /\ last.res.ret # None

\* C10 as stated: Read returns absent if and only if the session record does
\* not exist, or no bundle was ever attached to it, or the attached bundle's
\* expiry has passed; otherwise it returns the stored bundle.
C10_Original ==
    last.op = "Read" =>
        /\ last.res.ret = None <=>
              \/ last.sid \notin DOMAIN sessions
              \/ last.sid \notin DOMAIN attached
              \/ AttachedExpiry(last.sid) < now
        /\ last.res.ret # None =>
              /\ last.res.ret.access_token = sessions[last.sid].spotify_access_token
              /\ last.res.ret.refresh_token = sessions[last.sid].spotify_refresh_token
              /\ last.res.ret.expires_at = sessions[last.sid].spotify_token_expires_at
              /\ last.res.ret.scope = sessions[last.sid].spotify_scope

\* C10 amended: Read returns absent if and only if the session record does
\* not exist, or no bundle was ever attached to it, or the attached access
\* token is empty, or the bundle's expiry has passed; otherwise it returns the
\* stored access token, refresh token, expiry and scope.
C10_ReadAbsentIff ==
    last.op = "Read" =>
        /\ last.res.exc = ""
        /\ last.res.ret = None <=>
              \/ last.sid \notin DOMAIN sessions
              \/ last.sid \notin DOMAIN attached
              \/ attached[last.sid].access_token = ""
              \/ AttachedExpiry(last.sid) < now
        /\ last.res.ret # None =>
              /\ last.res.ret.access_token = sessions[last.sid].spotify_access_token
              /\ last.res.ret.refresh_token = sessions[last.sid].spotify_refresh_token
              /\ last.res.ret.expires_at = sessions[last.sid].spotify_token_expires_at
              /\ last.res.ret.scope = sessions[last.sid].spotify_scope

C10_Witness ==
    /\ last.op = "Read"
    /\ last.sid \in DOMAIN attached
    /\ attached[last.sid].access_token = ""
    /\ AttachedExpiry(last.sid) >= now
    /\ last.res.ret = None

\* C11: Read is a pure read. From every state, a session or a bundle past its
\* expiry included, a Read leaves the whole store as it was.
C11_ReadIsPure == [][last'.op = "Read" => sessions' = sessions]_vars

\* A Read of a session whose own expiry and whose bundle's expiry have both
\* passed: it returns nothing and the document is still there.
C11_Witness ==
    /\ last.op = "Read"
    /\ last.res.ret = None
    /\ doc_exists(sessions, last.sid)
    /\ sessions[last.sid].expires_at < now
    /\ token_expired(sessions[last.sid], now)

BundleKeys ==
    {"spotify_access_token", "spotify_refresh_token",
     "spotify_token_expires_at", "spotify_scope", "spotify_linked_at"}

\* The bundle a session document holds: its spotify_* fields.
Bundle(sid) == Restrict(sessions[sid], BundleKeys)

Linked(c) == cb[c].path # <<>> /\ cb[c].path[Len(cb[c].path)] = "Linked"

Errored(c) == cb[c].path # <<>> /\ cb[c].path[Len(cb[c].path)] = "Errored"

\* C12: Attach is last-write-wins without merging.  Whatever callbacks have
\* attached to a session, one after the other or overlapping, the bundle the
\* session holds is, field for field, the bundle of the last successful
\* attach, and that attach was made by a callback that ended Linked on this
\* session.
C12_LastWriteWins ==
    \A sid \in DOMAIN sessions :
        DOMAIN Bundle(sid) # {} =>
            /\ sid \in DOMAIN attached
            /\ Bundle(sid) =
                 [spotify_access_token |-> attached[sid].access_token,
                  spotify_refresh_token |-> attached[sid].refresh_token,
                  spotify_token_expires_at |-> AttachedExpiry(sid),
                  spotify_scope |-> attached[sid].scope,
                  spotify_linked_at |-> attached[sid].at]
            /\ \E c \in CallbackIds :
                  /\ Linked(c)
                  /\ cb[c].session_id = sid
                  /\ cb[c].response.json.access_token
                       = attached[sid].access_token

\* Two callbacks for one session that waited for the provider at the same
\* time and were given different tokens; both have attached, c2 last.
C12_Witness ==
    /\ Linked("c1") /\ Linked("c2")
    /\ cb["c1"].session_id = "s1" /\ cb["c2"].session_id = "s1"
    /\ "c1" \in cb["c2"].rivals
    /\ cb["c1"].response.json.access_token
         # cb["c2"].response.json.access_token
    /\ last.op = "CallbackComplete" /\ last.req.c = "c2"
    /\ doc_exists(sessions, "s1")
    /\ sessions["s1"].spotify_access_token
         = cb["c2"].response.json.access_token

HasColon(state) == \E i \in 1..Len(state) : state[i] = Colon

MissingState == <<"Missing state parameter">>

InvalidStateFormat == <<"Invalid state parameter format">>

\* The step just taken received callback c.
Received(c) == last.op = "CallbackReceive" /\ last.req.c = c

\* C13 as stated: every callback whose state has no colon fails with the
\* state error, whatever else it carries.
C13_Original ==
    \A c \in CallbackIds :
        Received(c) /\ ~HasColon(last.req.state) =>
            /\ last.res.status_code = 400
            /\ last.res.detail \in {MissingState, InvalidStateFormat}

\* C13: a callback whose state has no colon is answered 400 before anything
\* is sent to the token endpoint and without a store write.  When it carries
\* a code and no error parameter the error is the state error: "missing" for
\* the empty state, "invalid format" otherwise.  An error parameter or a
\* missing code is reported first.
C13_NoColonRejected ==
    [][\A c \in CallbackIds :
          Received(c)' /\ ~HasColon(last'.req.state) =>
              /\ last'.res.status_code = 400
              /\ cb'[c].path = <<"Errored">>
              /\ cb'[c].exchanges = 0
              /\ sessions' = sessions
              /\ last'.req.error = "" /\ last'.req.code # "" =>
                    last'.res.detail =
                        IF last'.req.state = <<>> THEN MissingState
                        ELSE InvalidStateFormat
              /\ last'.req.error # "" =>
                    last'.res.detail
                        = <<"Spotify OAuth error: ", last'.req.error>>
              /\ last'.req.error = "" /\ last'.req.code = "" =>
                    last'.res.detail = <<"No authorization code received">>
      ]_vars

\* A callback with a code, no error and the state "s1" while session s1
\* exists: it is refused for the format of its state.
C13_Witness ==
    /\ Received("c1")
    /\ last.req.code # "" /\ last.req.error = ""
    /\ last.req.state = <<"s1">>
    /\ last.res.status_code = 400
    /\ last.res.detail = InvalidStateFormat
    /\ cb["c1"].exchanges = 0
    /\ doc_exists(sessions, "s1")

\* C14: a callback with a non-empty error parameter is answered 400 with a
\* detail that contains the provider's error text, with or without a code
\* and whatever its state; nothing is sent to the token endpoint and no
\* session is modified.
C14_ProviderErrorRejected ==
    [][\A c \in CallbackIds :
          Received(c)' /\ last'.req.error # "" =>
              /\ last'.res.status_code = 400
              /\ \E i \in 1..Len(last'.res.detail) :
                    last'.res.detail[i] = last'.req.error
              /\ cb'[c].path = <<"Errored">>
              /\ cb'[c].exchanges = 0
              /\ sessions' = sessions
      ]_vars

\* The provider reports a refusal on a callback that still has a code and
\* the well-formed state of an existing session.
C14_Witness ==
    /\ Received("c1")
    /\ last.req.error = "access_denied"
    /\ last.req.code = "code1"
    /\ last.req.state = <<"s1", Colon, "n1">>
    /\ doc_exists(sessions, "s1")
    /\ last.res.status_code = 400
    /\ last.res.detail = <<"Spotify OAuth error: ", "access_denied">>

\* The step just taken brought callback c the provider's reply.
Completed(c) == last.op = "CallbackComplete" /\ last.req.c = c

\* C15: when the callback of a well-formed code and state "<id>:<nonce>"
\* gets a success from the token endpoint while session <id> exists, it is
\* answered 200 and that session holds the access token, refresh token and
\* scope of the reply with the expiry at the time of the attach plus
\* expires_in; the session's own fields and every other session are as
\* before.
C15_CallbackLinks ==
    [][\A c \in CallbackIds :
          LET sid == cb[c].session_id
              reply == last'.req.response
          IN /\ Completed(c)'
             /\ exchange_succeeded(reply)
             /\ doc_exists(sessions, sid)
             => /\ last'.res.status_code = 200
                /\ DOMAIN sessions' = DOMAIN sessions
                /\ Restrict(sessions'[sid], BundleKeys) =
                     [spotify_access_token |-> reply.json.access_token,
                      spotify_refresh_token |-> reply.json.refresh_token,
                      spotify_scope |-> reply.json.scope,
                      spotify_token_expires_at |->
                          now + reply.json.expires_in * SubSec,
                      spotify_linked_at |-> now]
                /\ \A k \in DOMAIN sessions[sid] \ BundleKeys :
                      sessions'[sid][k] = sessions[sid][k]
                /\ \A other \in DOMAIN sessions \ {sid} :
                      sessions'[other] = sessions[other]
      ]_vars

\* A callback for s1 linked it some time after the login, while s2 exists
\* and holds no bundle.
C15_Witness ==
    /\ Completed("c1")
    /\ Linked("c1")
    /\ cb["c1"].session_id = "s1"
    /\ now > 0
    /\ doc_exists(sessions, "s1")
    /\ sessions["s1"].spotify_access_token = "at1"
    /\ sessions["s1"].spotify_token_expires_at > now
    /\ doc_exists(sessions, "s2")
    /\ DOMAIN Restrict(sessions["s2"], BundleKeys) = {}

LinkedPath == <<"CodeReceived", "TokenExchanged", "Linked">>

\* C16: the OAuth flow is linear and Errored is absorbing.  A session holds a
\* bundle only through a callback that received the code and parsed the
\* state, then got a success from the token endpoint, then attached, in this
\* order.  No callback sends more than one request to the token endpoint;
\* the request goes out when the callback is received and at no other time.
\* A callback in Errored takes no further step, and a callback step writes
\* the store only when it goes from CodeReceived to Linked on a success.
C16_LinearFlow ==
    /\ [](/\ \A sid \in DOMAIN sessions :
                DOMAIN Bundle(sid) # {} =>
                    \E c \in CallbackIds :
                        cb[c].path = LinkedPath /\ cb[c].session_id = sid
          /\ \A c \in CallbackIds :
                /\ cb[c].exchanges <= 1
                /\ Linked(c) =>
                      /\ cb[c].path = LinkedPath
                      /\ cb[c].exchanges = 1
                      /\ exchange_succeeded(cb[c].response)
                /\ cb[c].path # <<>> =>
                      cb[c].path[1] \in {"CodeReceived", "Errored"})
    /\ [][\A c \in CallbackIds :
             /\ Errored(c) => cb'[c] = cb[c]
             /\ cb'[c].exchanges # cb[c].exchanges => cb[c].path = <<>>
             /\ cb'[c] # cb[c] /\ sessions' # sessions =>
                   /\ cb[c].path = <<"CodeReceived">>
                   /\ cb'[c].path = LinkedPath
         ]_vars

\* A callback has gone all the way to Linked with one exchange, the session
\* holds its bundle, and the system has moved on.
C16_Witness ==
    /\ cb["c1"].path = LinkedPath
    /\ cb["c1"].exchanges = 1
    /\ cb["c1"].session_id = "s1"
    /\ doc_exists(sessions, "s1")
    /\ DOMAIN Bundle("s1") = BundleKeys
    /\ last.op = "Chat"

StoreFailed == <<"Failed to store Spotify tokens">>

\* C17: when the token endpoint answers with a success and the attach fails,
\* as it does when the id in the state has no session record, the callback is
\* answered 500 and ends Errored after its one exchange; nothing more is
\* sent to the provider, the store is as it was and no record is created.
C17_AttachFailure ==
    [][\A c \in CallbackIds :
          LET sid == cb[c].session_id IN
          /\ Completed(c)'
          /\ exchange_succeeded(last'.req.response)
          /\ ~doc_exists(sessions, sid)
          => /\ last'.res.status_code = 500
             /\ last'.res.detail = StoreFailed
             /\ cb'[c].path = <<"CodeReceived", "TokenExchanged", "Errored">>
             /\ cb'[c].exchanges = 1
             /\ sessions' = sessions
             /\ ~doc_exists(sessions', sid)
      ]_vars

\* The session was revoked while its callback waited for the provider; the
\* provider's success then found no record to attach to.
C17_Witness ==
    /\ Completed("c1")
    /\ exchange_succeeded(last.req.response)
    /\ cb["c1"].session_id = "s1"
    /\ "s1" \in revoked
    /\ ~doc_exists(sessions, "s1")
    /\ last.res.status_code = 500
    /\ last.res.detail = StoreFailed

\* The step just taken was a /chat request that passed verify_jwt_token.
Chatted == last.op = "Chat" /\ last.verified

\* What Read returns for the session of the request just answered.
ChatRead == get_spotify_tokens(last.sid, sessions, now).ret

\* C18 as stated: the agent is invoked exactly when Read returns a bundle.
C18_Original ==
    Chatted =>
        (last.invoked /\ last.res.ret.spotify_authenticated
            <=> ChatRead # None)

\* C18: an authenticated /chat request is answered spotify_authenticated =
\* false with its message echoed, the agent not invoked, exactly when Read
\* returns absent.  It is answered spotify_authenticated = true exactly when
\* Read returns a bundle; the agent is then built from the bundle's access
\* token and invoked unless building it fails, and it is never invoked
\* otherwise.
C18_ChatGatedByRead ==
    Chatted =>
        /\ last.spotify_tokens = ChatRead
        /\ last.res.status_code = 200
        /\ last.res.ret.received_message = last.req.message
        /\ ~last.res.ret.spotify_authenticated <=> ChatRead = None
        /\ ChatRead = None => ~last.invoked
        /\ ChatRead # None =>
              (last.invoked <=> last.req.agent # "build_error")

\* An authenticated request of a session whose bundle has expired: Read
\* returns absent although the document holds an access token.
C18_Witness ==
    /\ Chatted
    /\ doc_exists(sessions, last.sid)
    /\ has_access_token(sessions[last.sid])
    /\ token_expired(sessions[last.sid], now)
    /\ ChatRead = None
    /\ ~last.res.ret.spotify_authenticated
    /\ ~last.invoked

\* C19: when building or running the agent fails in a /chat request of a
\* linked session, the request is still answered 200 with the message
\* echoed, spotify_authenticated = true and an error field; no exception
\* leaves the handler and no session record changes.
C19_AgentFailureAbsorbed ==
    [][/\ Chatted'
       /\ get_spotify_tokens(last'.sid, sessions, now).ret # None
       /\ last'.req.agent \in {"build_error", "run_error"}
       => /\ last'.res.exc = ""
          /\ last'.res.status_code = 200
          /\ last'.res.ret.received_message = last'.req.message
          /\ last'.res.ret.spotify_authenticated
          /\ "error" \in DOMAIN last'.res.ret
          /\ sessions' = sessions
      ]_vars

\* The agent failed while running for a linked session, and the request was
\* answered with the error in its body.
C19_Witness ==
    /\ Chatted
    /\ last.req.agent = "run_error"
    /\ last.invoked
    /\ ChatRead # None
    /\ last.res.status_code = 200
    /\ last.res.ret.error = "Exception"

\* The step just taken was a call of a tool.
ToolCalled == last.op = "Tool"

\* The tool got as far as calling the provider.
ToolReached == tool_try(last.tool, last.input, last.outcome).called

\* The call of the provider or the processing of its response failed.
ToolFailed == tool_try(last.tool, last.input, last.outcome).exc # ""

IsErrorString(ret) ==
    /\ Len(ret) = 2
    /\ ret[1] = error_prefix(last.tool)
    /\ ret[2] \in {"SpotifyException", "KeyError", "IndexError", "TypeError",
                   "AttributeError", "ValueError"}

\* C20: each of the nine tools returns a value on every input and every
\* outcome of the provider.  When the provider call raises, or the response
\* cannot be processed, the value is the tool's error string naming the
\* failure; no exception leaves the tool.
C20_ToolsNeverRaise ==
    ToolCalled =>
        /\ last.res.exc = ""
        /\ last.res.ret # <<>>
        /\ ToolReached /\ last.outcome.raised =>
              last.res.ret = <<error_prefix(last.tool), "SpotifyException">>
        /\ ToolFailed <=> IsErrorString(last.res.ret)

\* get_saved_tracks is given a response in which the second item has no
\* track: the subscript of None is reported in the returned string.
C20_Witness ==
    /\ ToolCalled
    /\ last.tool = "get_saved_tracks"
    /\ ~last.outcome.raised
    /\ last.outcome.items = <<{}, {"track"}>>
    /\ last.res.exc = ""
    /\ last.res.ret = <<"Error getting saved tracks: ", "TypeError">>

\* C21: a conversation document holds an append-only ordered array.  The
\* entry of every store_conversation_message call that has returned is in
\* the messages of its document, and no step removes a document or changes
\* or moves an entry its array already holds.
C21_AppendOnly ==
    /\ [](\A i \in 1..Len(recorded) :
             /\ doc_exists(conversations, recorded[i].key)
             /\ \E j \in 1..Len(conversations[recorded[i].key].messages) :
                   conversations[recorded[i].key].messages[j]
                     = recorded[i].message_data)
    /\ [][\A key \in DOMAIN conversations :
             /\ key \in DOMAIN conversations'
             /\ Len(conversations'[key].messages)
                  >= Len(conversations[key].messages)
             /\ \A j \in 1..Len(conversations[key].messages) :
                   conversations'[key].messages[j]
                     = conversations[key].messages[j]
         ]_vars

\* The step just taken was a call of get_recently_played that asked the
\* provider.
RecentlyPlayedAsked ==
    ToolCalled /\ last.tool = "get_recently_played" /\ ToolReached

\* The first word of the input, split at blanks, that consists of digits.
FirstNumber(input_text) ==
    LET words == str_split(input_text)
        at == {i \in 1..Len(words) : str_isdigit(words[i])}
    IN IF at = {} THEN <<>>
       ELSE words[CHOOSE i \in at : \A j \in at : i <= j]

\* C22: get_recently_played asks the provider for at most 50 items: for
\* min(n, 50) where n is the first word of the input that consists of
\* digits, and for 20 when the input is empty or has no such word.
C22_LimitClamped ==
    RecentlyPlayedAsked =>
        LET n == FirstNumber(last.input)
            limit == last.res.call.limit
        IN /\ limit <= 50
           /\ n = <<>> => limit = 20
           /\ n # <<>> =>
                 limit = IF decimal_value(n) <= 50 THEN decimal_value(n)
                         ELSE 50
           /\ last.input = <<>> => limit = 20
           /\ last.input = <<"1", "0", "s", "o", "n", "g", "s">> => limit = 20
           /\ last.input = <<"6", "0">> => limit = 50
           /\ last.input = <<"5", " ", "6", "0">> => limit = 5
           /\ last.input = <<"l", "a", "s", "t", " ", "1", "0", " ",
                             "s", "o", "n", "g", "s">> => limit = 10

\* The input "60": the provider is asked for 50 items.
C22_Witness ==
    /\ RecentlyPlayedAsked
    /\ last.input = <<"6", "0">>
    /\ last.res.call.limit = 50
    /\ ~last.outcome.raised

SessionOps ==
    {"Issue", "Verify", "Revoke", "Attach", "Read", "CallbackReceive",
     "CallbackComplete", "Chat"}

\* C23: session isolation.  A step of an operation addressed to one session
\* id, whichever requests it is interleaved with, leaves every other session
\* as it was: there or not there, with the same created_at, expires_at and
\* bundle.
C23_SessionIsolation ==
    [][last'.op \in SessionOps =>
          \A other \in SessionIds \ {last'.sid} :
              /\ doc_exists(sessions', other) <=> doc_exists(sessions, other)
              /\ doc_exists(sessions, other) =>
                    sessions'[other] = sessions[other]
      ]_vars

\* The verifier has just deleted the expired session s1 while s2 is there
\* with a bundle.
C23_Witness ==
    /\ last.op = "Verify" /\ last.sid = "s1"
    /\ last.res.detail = SessionExpired
    /\ ~doc_exists(sessions, "s1")
    /\ doc_exists(sessions, "s2")
    /\ DOMAIN Bundle("s2") = BundleKeys

====
